---- MODULE Spec2Model ----
(***************************************************************************)
(* lead-oxide: the rate-gated batch fetcher of src/src/fetcher.rs.         *)
(*                                                                         *)
(* A Session owns one Arc<Mutex<Instant>> (last_fetched).  Every Fetcher   *)
(* made from it holds a clone of that Arc, and owns a Vec<Proxy> buffer    *)
(* (proxies) and its options.                                              *)
(* try_get(amount) serves from the buffer when it can; otherwise premium   *)
(* fetchers loop over the remote call, and keyless fetchers take the       *)
(* mutex, delay to constants::DELAY after the stored instant, call the     *)
(* remote boundary and store the new instant.                              *)
(*                                                                         *)
(* Time is in milliseconds.  Each fetcher is driven by its own thread; a   *)
(* step of the model is one step of one thread, and the clock advances     *)
(* between the readings the threads take of it.                            *)
(***************************************************************************)
EXTENDS Integers, Sequences, FiniteSets, TLC

\* ---------------------------------------------------------------- bounds
NumFetchers == 2
MaxLimit == 2
MaxCalls == 3
MaxTime == 2200
MaxRequests == 3

\* ------------------------------------------------------------- constants
\* constants::DELAY outside of tests, in milliseconds
DELAY == 1100

\* how far the clock may have moved on between two readings of it
Elapsed == {0, 550, 1100}

Fetchers == 1..NumFetchers
NoThread == 0

\* the Sessions of the program; each owns one Arc<Mutex<Instant>>
Sessions == {1, 2}

VARIABLES
    now,          \* the latest instant any thread observed on the monotonic clock
    session,      \* the Session whose Arc each fetcher holds in Fetcher.last_fetched
    last_fetched, \* per Session: the Instant inside Session.last_fetched
    lockHolder,   \* per Session: the fetcher whose thread holds the MutexGuard, or NoThread
    poisoned,     \* per Session: the mutex's poison flag
    premium,      \* opts.is_premium() of each fetcher
    limit,        \* opts.limit of each fetcher
    proxies,      \* Fetcher.proxies, a sequence of record ids
    pc,           \* where each fetcher's thread is
    amount,       \* the argument of the try_get in progress (or last made)
    result,       \* what the last try_get returned
    wake,         \* the instant the thread::sleep of a fetcher ends
    calls,        \* number of try_get calls entered by each fetcher
    fetched,      \* records each fetcher received from the remote boundary
    returned,     \* records each fetcher handed out through Ok results
    preBuf,       \* the buffer at the start of the try_get in progress
    fetched0,     \* fetched at the start of the try_get in progress
    ncalls,       \* remote calls invoked by the try_get in progress, counted up to MaxRequests
    lastCallAt,   \* per Session: instant of the latest keyless remote invocation, or NoCall
    drained,      \* what drain() returned, per fetcher
    recoveries    \* number of times the poisoned branch of lock() reset the timer

gate == <<last_fetched, lockHolder, poisoned>>
opts == <<premium, limit>>
\* what Fetcher::new fixes for the life of a fetcher: its options and its Arc
made == <<premium, limit, session>>
vars == <<now, session, last_fetched, lockHolder, poisoned, premium, limit, proxies, pc,
          amount, result, wake, calls, fetched, returned, preBuf, fetched0,
          ncalls, lastCallAt, drained, recoveries>>

NoCall == -1

\* ------------------------------------------------------ results of try_get
Pending == [kind |-> "pending", recs |-> <<>>]
Ok(recs) == [kind |-> "ok", recs |-> recs]
Err == [kind |-> "ApiError", recs |-> <<>>]

\* ------------------------------------------------------------ Vec helpers
\* variant: the records are taken from the front of the vector
SplitOffTail_Front(v, at) == SubSeq(v, 1, Len(v) - at)

\* Vec::split_off(at): the tail [at, len) is returned ...
SplitOffTail(v, at) == SubSeq(v, at + 1, Len(v))
\* ... and the vector keeps [0, at)
SplitOffKeep(v, at) == SubSeq(v, 1, at)

\* the batch of n records a fetcher receives when it already received k
Batch(k, n) == [i \in 1..n |-> k + i]

\* variant: the batch is assigned to the buffer instead of appended
Append2_Overwrite(v, w) == w

\* Vec::append
Append2(v, w) == v \o w

\* ----------------------------------------------------------------- clock
\* Instant::now(): the clock is monotonic, a reading is never before an
\* earlier one.  Idle time is followed up to MaxTime.
Instants == {now + d : d \in {e \in Elapsed : e = 0 \/ now + e <= MaxTime}}

Max(a, b) == IF a >= b THEN a ELSE b

RECURSIVE SumTo(_, _)
SumTo(c, n) == IF n = 0 THEN 0 ELSE c[n] + SumTo(c, n - 1)
\* calls of try_get and of drain made so far, over all fetchers
TotalCalls ==
    SumTo(calls, NumFetchers) + Cardinality({f \in Fetchers : pc[f] = "drained"})

\* the amounts asked for: nothing, one record, more than one batch
Amounts(f) == {0, 1, limit[f] + 1}

\* the remote boundary answers a request with opts.limit records
BatchSizes(f) == {limit[f]}

\* a remote boundary that answers with up to opts.limit records, or none
ShortBatchSizes(f) == 0..limit[f]

\* --------------------------------------------------------------- Session
\* the tiers the caller may give the fetchers of the session; fetchers are
\* interchangeable, so the keyless ones are numbered first
Tiers == {p \in [Fetchers -> BOOLEAN] :
             \A i, j \in Fetchers : (i < j /\ p[i]) => p[j]}

\* Session::default: a gate of its own, set one DELAY in the past;
\* Session::fetcher / fetcher_with_opts: a clone of the Session's Arc, an
\* empty buffer and the options the caller chose.
Setup(sess) ==
    /\ now = 0
    /\ session = sess
    /\ last_fetched = [s \in Sessions |-> 0 - DELAY]
    /\ lockHolder = [s \in Sessions |-> NoThread]
    /\ poisoned = [s \in Sessions |-> FALSE]
    /\ premium \in Tiers
    /\ limit = [f \in Fetchers |-> MaxLimit]
    /\ proxies = [f \in Fetchers |-> <<>>]
    /\ pc = [f \in Fetchers |-> "idle"]
    /\ amount = [f \in Fetchers |-> 0]
    /\ result = [f \in Fetchers |-> Pending]
    /\ wake = [f \in Fetchers |-> 0]
    /\ calls = [f \in Fetchers |-> 0]
    /\ fetched = [f \in Fetchers |-> 0]
    /\ returned = [f \in Fetchers |-> 0]
    /\ preBuf = [f \in Fetchers |-> <<>>]
    /\ fetched0 = [f \in Fetchers |-> 0]
    /\ ncalls = [f \in Fetchers |-> 0]
    /\ lastCallAt = [s \in Sessions |-> NoCall]
    /\ drained = [f \in Fetchers |-> <<>>]
    /\ recoveries = 0

\* every fetcher is made from the same Session
OneSession == [f \in Fetchers |-> 1]

Init == Setup(OneSession)

\* the first fetcher is made from one Session, the others from a second one
TwoSessions == [f \in Fetchers |-> IF f = 1 THEN 1 ELSE 2]

InitSessions == Setup(TwoSessions)

\* ------------------------------------------------------- Fetcher::try_get
\* variant: the whole buffer is handed out instead of its last `amount`
ReturnOk_WholeBuffer(f, buf) ==
    /\ result' = [result EXCEPT ![f] = Ok(buf)]
    /\ proxies' = [proxies EXCEPT ![f] = <<>>]
    /\ returned' = [returned EXCEPT ![f] = @ + Len(buf)]
    /\ pc' = [pc EXCEPT ![f] = "idle"]

\* the return of line 34 / 74: Ok(self.proxies.split_off(len - amount))
ReturnOk(f, buf) ==
    /\ result' = [result EXCEPT ![f] = Ok(SplitOffTail(buf, Len(buf) - amount'[f]))]
    /\ proxies' = [proxies EXCEPT ![f] = SplitOffKeep(buf, Len(buf) - amount'[f])]
    /\ returned' = [returned EXCEPT ![f] = @ + amount'[f]]
    /\ pc' = [pc EXCEPT ![f] = "idle"]

\* variant: no fast path, every try_get goes to the remote boundary
TryGet_NoFastPath(f, amt) ==
    /\ pc[f] = "idle"
    /\ TotalCalls < MaxCalls
    /\ calls' = [calls EXCEPT ![f] = @ + 1]
    /\ amount' = [amount EXCEPT ![f] = amt]
    /\ preBuf' = [preBuf EXCEPT ![f] = proxies[f]]
    /\ fetched0' = [fetched0 EXCEPT ![f] = fetched[f]]
    /\ ncalls' = [ncalls EXCEPT ![f] = 0]
    /\ pc' = [pc EXCEPT ![f] = IF premium[f] THEN "fetch" ELSE "lock"]
    /\ result' = [result EXCEPT ![f] = Pending]
    /\ UNCHANGED <<proxies, returned>>
    /\ UNCHANGED <<now, gate, made, wake, fetched, lastCallAt, drained, recoveries>>

\* variant: the fast path needs more in the buffer than was asked for
TryGet_StrictFastPath(f, amt) ==
    /\ pc[f] = "idle"
    /\ TotalCalls < MaxCalls
    /\ calls' = [calls EXCEPT ![f] = @ + 1]
    /\ amount' = [amount EXCEPT ![f] = amt]
    /\ preBuf' = [preBuf EXCEPT ![f] = proxies[f]]
    /\ fetched0' = [fetched0 EXCEPT ![f] = fetched[f]]
    /\ ncalls' = [ncalls EXCEPT ![f] = 0]
    /\ IF Len(proxies[f]) > amt
         THEN ReturnOk(f, proxies[f])
         ELSE /\ pc' = [pc EXCEPT ![f] = IF premium[f] THEN "fetch" ELSE "lock"]
              /\ result' = [result EXCEPT ![f] = Pending]
              /\ UNCHANGED <<proxies, returned>>
    /\ UNCHANGED <<now, gate, made, wake, fetched, lastCallAt, drained, recoveries>>

\* variant: the tier is not looked at, every slow path takes the lock
TryGet_AlwaysLock(f, amt) ==
    /\ pc[f] = "idle"
    /\ TotalCalls < MaxCalls
    /\ calls' = [calls EXCEPT ![f] = @ + 1]
    /\ amount' = [amount EXCEPT ![f] = amt]
    /\ preBuf' = [preBuf EXCEPT ![f] = proxies[f]]
    /\ fetched0' = [fetched0 EXCEPT ![f] = fetched[f]]
    /\ ncalls' = [ncalls EXCEPT ![f] = 0]
    /\ IF Len(proxies[f]) >= amt
         THEN ReturnOk(f, proxies[f])
         ELSE /\ pc' = [pc EXCEPT ![f] = "lock"]
              /\ result' = [result EXCEPT ![f] = Pending]
              /\ UNCHANGED <<proxies, returned>>
    /\ UNCHANGED <<now, gate, made, wake, fetched, lastCallAt, drained, recoveries>>

\* try_get is entered.  Enough in the buffer: fulfil without locking.
\* Otherwise premium fetchers go to their loop, keyless ones to the lock.
TryGet(f, amt) ==
    /\ pc[f] = "idle"
    /\ TotalCalls < MaxCalls
    /\ calls' = [calls EXCEPT ![f] = @ + 1]
    /\ amount' = [amount EXCEPT ![f] = amt]
    /\ preBuf' = [preBuf EXCEPT ![f] = proxies[f]]
    /\ fetched0' = [fetched0 EXCEPT ![f] = fetched[f]]
    /\ ncalls' = [ncalls EXCEPT ![f] = 0]
    /\ IF Len(proxies[f]) >= amt
         THEN ReturnOk(f, proxies[f])
         ELSE /\ pc' = [pc EXCEPT ![f] = IF premium[f] THEN "fetch" ELSE "lock"]
              /\ result' = [result EXCEPT ![f] = Pending]
              /\ UNCHANGED <<proxies, returned>>
    /\ UNCHANGED <<now, gate, made, wake, fetched, lastCallAt, drained, recoveries>>

\* variant: one process-wide mutex instead of the one of the fetcher's Session
Lock_GlobalGate(f) ==
    /\ pc[f] = "lock"
    /\ lockHolder[1] = NoThread
    /\ lockHolder' = [lockHolder EXCEPT ![1] = f]
    /\ IF poisoned[1]
         THEN /\ \E t \in Instants :
                   /\ now' = t
                   /\ last_fetched' = [last_fetched EXCEPT ![1] = t]
              /\ recoveries' = recoveries + 1
         ELSE UNCHANGED <<now, last_fetched, recoveries>>
    /\ pc' = [pc EXCEPT ![f] = "delay"]
    /\ UNCHANGED <<poisoned, made, proxies, amount, result, wake, calls,
                   fetched, returned, preBuf, fetched0, ncalls, lastCallAt, drained>>

\* variant: recovery puts the timer one DELAY back, as Session::default does
Lock_ResetToPast(f) ==
    /\ pc[f] = "lock"
    /\ lockHolder[session[f]] = NoThread
    /\ lockHolder' = [lockHolder EXCEPT ![session[f]] = f]
    /\ IF poisoned[session[f]]
         THEN /\ \E t \in Instants :
                   /\ now' = t
                   /\ last_fetched' = [last_fetched EXCEPT ![session[f]] = t - DELAY]
              /\ recoveries' = recoveries + 1
         ELSE UNCHANGED <<now, last_fetched, recoveries>>
    /\ pc' = [pc EXCEPT ![f] = "delay"]
    /\ UNCHANGED <<poisoned, made, proxies, amount, result, wake, calls,
                   fetched, returned, preBuf, fetched0, ncalls, lastCallAt, drained>>

\* variant: lock().unwrap(), a poisoned mutex never hands out the guard
Lock_PoisonFatal(f) ==
    /\ pc[f] = "lock"
    /\ lockHolder[session[f]] = NoThread
    /\ ~poisoned[session[f]]
    /\ lockHolder' = [lockHolder EXCEPT ![session[f]] = f]
    /\ pc' = [pc EXCEPT ![f] = "delay"]
    /\ UNCHANGED <<now, last_fetched, recoveries, poisoned, made, proxies,
                   amount, result, wake, calls, fetched, returned, preBuf,
                   fetched0, ncalls, lastCallAt, drained>>

\* self.last_fetched.lock(): blocks while another thread holds the guard; a
\* poisoned mutex still hands out the guard, and the timer is reset.
Lock(f) ==
    /\ pc[f] = "lock"
    /\ lockHolder[session[f]] = NoThread
    /\ lockHolder' = [lockHolder EXCEPT ![session[f]] = f]
    /\ IF poisoned[session[f]]
         THEN /\ \E t \in Instants :
                   /\ now' = t
                   /\ last_fetched' = [last_fetched EXCEPT ![session[f]] = t]
              /\ recoveries' = recoveries + 1
         ELSE UNCHANGED <<now, last_fetched, recoveries>>
    /\ pc' = [pc EXCEPT ![f] = "delay"]
    /\ UNCHANGED <<poisoned, made, proxies, amount, result, wake, calls,
                   fetched, returned, preBuf, fetched0, ncalls, lastCallAt, drained>>

\* variant: the guard is dropped for the time of the sleep
Delay_SleepUnlocked(f) ==
    /\ pc[f] = "delay"
    /\ \E t \in Instants :
         /\ now' = t
         /\ LET delta == t - last_fetched[session[f]] IN
              IF delta < DELAY
                THEN /\ wake' = [wake EXCEPT ![f] = t + (DELAY - delta)]
                     /\ pc' = [pc EXCEPT ![f] = "sleep"]
                     /\ lockHolder' = [lockHolder EXCEPT ![session[f]] = NoThread]
                ELSE /\ pc' = [pc EXCEPT ![f] = "fetch"]
                     /\ UNCHANGED <<wake, lockHolder>>
    /\ UNCHANGED <<last_fetched, poisoned, made, proxies, amount, result, calls,
                   fetched, returned, preBuf, fetched0, ncalls, lastCallAt,
                   drained, recoveries>>

\* lines 61-64: delta = now - *last_fetched; sleep for what is left of DELAY
Delay(f) ==
    /\ pc[f] = "delay"
    /\ \E t \in Instants :
         /\ now' = t
         /\ LET delta == t - last_fetched[session[f]] IN
              IF delta < DELAY
                THEN /\ wake' = [wake EXCEPT ![f] = t + (DELAY - delta)]
                     /\ pc' = [pc EXCEPT ![f] = "sleep"]
                ELSE /\ pc' = [pc EXCEPT ![f] = "fetch"]
                     /\ UNCHANGED wake
    /\ UNCHANGED <<gate, made, proxies, amount, result, calls, fetched,
                   returned, preBuf, fetched0, ncalls, lastCallAt, drained, recoveries>>

\* thread::sleep returns, not before the duration has passed
Wake(f) ==
    /\ pc[f] = "sleep"
    /\ now' = Max(now, wake[f])
    /\ wake' = [wake EXCEPT ![f] = 0]
    /\ pc' = [pc EXCEPT ![f] = "fetch"]
    /\ UNCHANGED <<gate, made, proxies, amount, result, calls,
                   fetched, returned, preBuf, fetched0, ncalls, lastCallAt, drained, recoveries>>

\* self.fetch(&mut request): the request leaves for the remote boundary;
\* the requests of a try_get are counted up to MaxRequests
Invoke(f) ==
    /\ pc[f] = "fetch"
    /\ pc' = [pc EXCEPT ![f] = "inflight"]
    /\ ncalls' = [ncalls EXCEPT ![f] = IF @ < MaxRequests THEN @ + 1 ELSE @]
    /\ IF premium[f]
         THEN UNCHANGED <<now, lastCallAt>>
         ELSE \E t \in Instants :
                 /\ now' = t
                 /\ lastCallAt' = [lastCallAt EXCEPT ![session[f]] = t]
    /\ UNCHANGED <<gate, made, proxies, amount, result, wake, calls,
                   fetched, returned, preBuf, fetched0, drained, recoveries>>

\* variant: the loop goes round once more when the buffer holds exactly `amount`
PremiumFetchOk_OneMore(f, n) ==
    /\ pc[f] = "inflight"
    /\ premium[f]
    /\ fetched' = [fetched EXCEPT ![f] = @ + n]
    /\ UNCHANGED amount
    /\ LET buf == Append2(proxies[f], Batch(fetched[f], n)) IN
         IF Len(buf) <= amount[f]
           THEN /\ proxies' = [proxies EXCEPT ![f] = buf]
                /\ pc' = [pc EXCEPT ![f] = "fetch"]
                /\ UNCHANGED <<result, returned>>
           ELSE ReturnOk(f, buf)
    /\ UNCHANGED <<now, gate, made, wake, calls, preBuf, fetched0, ncalls,
                   lastCallAt, drained, recoveries>>

\* premium loop, lines 42-45: append the batch, go round while short
PremiumFetchOk(f, n) ==
    /\ pc[f] = "inflight"
    /\ premium[f]
    /\ fetched' = [fetched EXCEPT ![f] = @ + n]
    /\ UNCHANGED amount
    /\ LET buf == Append2(proxies[f], Batch(fetched[f], n)) IN
         IF Len(buf) < amount[f]
           THEN /\ proxies' = [proxies EXCEPT ![f] = buf]
                /\ pc' = [pc EXCEPT ![f] = "fetch"]
                /\ UNCHANGED <<result, returned>>
           ELSE ReturnOk(f, buf)
    /\ UNCHANGED <<now, gate, made, wake, calls, preBuf, fetched0, ncalls,
                   lastCallAt, drained, recoveries>>

\* variant: the error path throws away what this try_get fetched so far
PremiumFetchErr_Rollback(f) ==
    /\ pc[f] = "inflight"
    /\ premium[f]
    /\ result' = [result EXCEPT ![f] = Err]
    /\ proxies' = [proxies EXCEPT ![f] = preBuf[f]]
    /\ pc' = [pc EXCEPT ![f] = "idle"]
    /\ UNCHANGED <<now, gate, made, amount, wake, calls, fetched, returned,
                   preBuf, fetched0, ncalls, lastCallAt, drained, recoveries>>

\* premium loop, line 43: `?` returns the error
PremiumFetchErr(f) ==
    /\ pc[f] = "inflight"
    /\ premium[f]
    /\ result' = [result EXCEPT ![f] = Err]
    /\ pc' = [pc EXCEPT ![f] = "idle"]
    /\ UNCHANGED <<now, gate, made, proxies, amount, wake, calls, fetched,
                   returned, preBuf, fetched0, ncalls, lastCallAt, drained, recoveries>>

\* variant: the fetchers of a Session append to one buffer they all share
KeylessFetchOk_SharedBuffer(f, n) ==
    /\ pc[f] = "inflight"
    /\ ~premium[f]
    /\ fetched' = [fetched EXCEPT ![f] = @ + n]
    /\ proxies' = [g \in Fetchers |->
                     IF session[g] = session[f]
                       THEN Append2(proxies[g], Batch(fetched[f], n))
                       ELSE proxies[g]]
    /\ pc' = [pc EXCEPT ![f] = "stamp"]
    /\ UNCHANGED <<now, gate, made, amount, result, wake, calls, returned,
                   preBuf, fetched0, ncalls, lastCallAt, drained, recoveries>>

\* keyless loop, lines 66-67: the batch arrived and is appended
KeylessFetchOk(f, n) ==
    /\ pc[f] = "inflight"
    /\ ~premium[f]
    /\ fetched' = [fetched EXCEPT ![f] = @ + n]
    /\ proxies' = [proxies EXCEPT ![f] = Append2(@, Batch(fetched[f], n))]
    /\ pc' = [pc EXCEPT ![f] = "stamp"]
    /\ UNCHANGED <<now, gate, made, amount, result, wake, calls, returned,
                   preBuf, fetched0, ncalls, lastCallAt, drained, recoveries>>

\* variant: the error path leaves without dropping the guard
KeylessFetchErr_KeepGuard(f) ==
    /\ pc[f] = "inflight"
    /\ ~premium[f]
    /\ result' = [result EXCEPT ![f] = Err]
    /\ pc' = [pc EXCEPT ![f] = "idle"]
    /\ UNCHANGED <<now, gate, made, proxies, amount, wake, calls, fetched,
                   returned, preBuf, fetched0, ncalls, lastCallAt, drained,
                   recoveries>>

\* keyless loop, line 66: `?` returns the error; the guard is dropped on the
\* way out, the stored instant is left as it was
KeylessFetchErr(f) ==
    /\ pc[f] = "inflight"
    /\ ~premium[f]
    /\ result' = [result EXCEPT ![f] = Err]
    /\ pc' = [pc EXCEPT ![f] = "idle"]
    /\ lockHolder' = [lockHolder EXCEPT ![session[f]] = NoThread]
    /\ UNCHANGED <<now, last_fetched, poisoned, made, proxies, amount, wake,
                   calls, fetched, returned, preBuf, fetched0, ncalls, lastCallAt,
                   drained, recoveries>>

\* variant: the guard outlives the growth loop
Stamp_KeepGuard(f) ==
    /\ pc[f] = "stamp"
    /\ \E t \in Instants :
         /\ now' = t
         /\ last_fetched' = [last_fetched EXCEPT ![session[f]] = t]
    /\ UNCHANGED <<amount, lockHolder>>
    /\ IF Len(proxies[f]) < amount[f]
         THEN /\ pc' = [pc EXCEPT ![f] = "delay"]
              /\ UNCHANGED <<proxies, result, returned>>
         ELSE ReturnOk(f, proxies[f])
    /\ UNCHANGED <<poisoned, made, wake, calls, fetched, preBuf,
                   fetched0, ncalls, lastCallAt, drained, recoveries>>

\* keyless loop, line 70, then the loop test of line 59; when the buffer is
\* long enough the guard is dropped (line 72) and line 74 returns
Stamp(f) ==
    /\ pc[f] = "stamp"
    /\ \E t \in Instants :
         /\ now' = t
         /\ last_fetched' = [last_fetched EXCEPT ![session[f]] = t]
    /\ UNCHANGED amount
    /\ IF Len(proxies[f]) < amount[f]
         THEN /\ pc' = [pc EXCEPT ![f] = "delay"]
              /\ UNCHANGED <<lockHolder, proxies, result, returned>>
         ELSE /\ lockHolder' = [lockHolder EXCEPT ![session[f]] = NoThread]
              /\ ReturnOk(f, proxies[f])
    /\ UNCHANGED <<poisoned, made, wake, calls, fetched, preBuf,
                   fetched0, ncalls, lastCallAt, drained, recoveries>>

\* the thread of a keyless fetcher panics inside the remote call while it
\* holds the guard: unwinding drops the guard and poisons the mutex
Panic(f) ==
    /\ pc[f] = "inflight"
    /\ ~premium[f]
    /\ lockHolder[session[f]] = f
    /\ lockHolder' = [lockHolder EXCEPT ![session[f]] = NoThread]
    /\ poisoned' = [poisoned EXCEPT ![session[f]] = TRUE]
    /\ pc' = [pc EXCEPT ![f] = "dead"]
    /\ UNCHANGED <<now, last_fetched, made, proxies, amount, result, wake,
                   calls, fetched, returned, preBuf, fetched0, ncalls, lastCallAt,
                   drained, recoveries>>

\* Fetcher::drain consumes the fetcher and hands out the buffer
Drain(f) ==
    /\ pc[f] = "idle"
    /\ TotalCalls < MaxCalls
    /\ drained' = [drained EXCEPT ![f] = proxies[f]]
    /\ proxies' = [proxies EXCEPT ![f] = <<>>]
    /\ pc' = [pc EXCEPT ![f] = "drained"]
    /\ UNCHANGED <<now, gate, made, amount, result, wake, calls,
                   fetched, returned, preBuf, fetched0, ncalls, lastCallAt, recoveries>>

\* ------------------------------------------------------------------ Next
Next ==
    \/ \E f \in Fetchers : \E amt \in Amounts(f) : TryGet(f, amt)
    \/ \E f \in Fetchers : Lock(f)
    \/ \E f \in Fetchers : Delay(f)
    \/ \E f \in Fetchers : Wake(f)
    \/ \E f \in Fetchers : Invoke(f)
    \/ \E f \in Fetchers : \E n \in BatchSizes(f) : PremiumFetchOk(f, n)
    \/ \E f \in Fetchers : PremiumFetchErr(f)
    \/ \E f \in Fetchers : \E n \in BatchSizes(f) : KeylessFetchOk(f, n)
    \/ \E f \in Fetchers : KeylessFetchErr(f)
    \/ \E f \in Fetchers : Stamp(f)
    \/ \E f \in Fetchers : Panic(f)
    \/ \E f \in Fetchers : Drain(f)

Spec == Init /\ [][Next]_vars

\* Fair scheduling: a thread that can take its next step takes it -- for a
\* thread blocked in lock(), once the guard stays free -- and a remote call
\* comes back, with a batch or with an error.  Entering try_get, drain() and
\* a panic are the caller's and the environment's choice.
RemoteReturns(f) ==
    \/ \E n \in BatchSizes(f) : PremiumFetchOk(f, n)
    \/ PremiumFetchErr(f)
    \/ \E n \in BatchSizes(f) : KeylessFetchOk(f, n)
    \/ KeylessFetchErr(f)

ThreadStep(f) ==
    Lock(f) \/ Delay(f) \/ Wake(f) \/ Invoke(f) \/ RemoteReturns(f) \/ Stamp(f)

Fairness == \A f \in Fetchers : WF_vars(ThreadStep(f))

\* every fetcher is moved to a thread of its own that enters try_get once,
\* as in tests::delays::mutliple_threads
NextLive ==
    \/ \E f \in Fetchers : \E amt \in Amounts(f) : calls[f] = 0 /\ TryGet(f, amt)
    \/ \E f \in Fetchers : Lock(f)
    \/ \E f \in Fetchers : Delay(f)
    \/ \E f \in Fetchers : Wake(f)
    \/ \E f \in Fetchers : Invoke(f)
    \/ \E f \in Fetchers : \E n \in BatchSizes(f) : PremiumFetchOk(f, n)
    \/ \E f \in Fetchers : PremiumFetchErr(f)
    \/ \E f \in Fetchers : \E n \in BatchSizes(f) : KeylessFetchOk(f, n)
    \/ \E f \in Fetchers : KeylessFetchErr(f)
    \/ \E f \in Fetchers : Stamp(f)
    \/ \E f \in Fetchers : Panic(f)

LiveSpec == Init /\ [][NextLive]_vars /\ Fairness

\* the same threads with fetchers of two Sessions
SessionsSpec == InitSessions /\ [][NextLive]_vars

\* sequential use, as in tests::delays::multiple_delays and
\* tests::delays::multiple_fetchers: try_get is entered on a fetcher only
\* when no other fetcher is inside try_get
NextSeq ==
    \/ \E f \in Fetchers : \E amt \in Amounts(f) :
          /\ \A g \in Fetchers : pc[g] \in {"idle", "dead", "drained"}
          /\ TryGet(f, amt)
    \/ \E f \in Fetchers : Lock(f)
    \/ \E f \in Fetchers : Delay(f)
    \/ \E f \in Fetchers : Wake(f)
    \/ \E f \in Fetchers : Invoke(f)
    \/ \E f \in Fetchers : \E n \in BatchSizes(f) : PremiumFetchOk(f, n)
    \/ \E f \in Fetchers : PremiumFetchErr(f)
    \/ \E f \in Fetchers : \E n \in BatchSizes(f) : KeylessFetchOk(f, n)
    \/ \E f \in Fetchers : KeylessFetchErr(f)
    \/ \E f \in Fetchers : Stamp(f)
    \/ \E f \in Fetchers : Panic(f)
    \/ \E f \in Fetchers : Drain(f)

SeqSpec == Init /\ [][NextSeq]_vars

\* premium fetchers and a remote boundary whose calls all succeed, with
\* batches of any size up to opts.limit
InitPremium == Init /\ \A f \in Fetchers : premium[f]

NextShort ==
    \/ \E f \in Fetchers : \E amt \in Amounts(f) : TryGet(f, amt)
    \/ \E f \in Fetchers : Invoke(f)
    \/ \E f \in Fetchers : \E n \in ShortBatchSizes(f) : PremiumFetchOk(f, n)

ThreadStepShort(f) ==
    Invoke(f) \/ \E n \in ShortBatchSizes(f) : PremiumFetchOk(f, n)

ShortSpec ==
    InitPremium /\ [][NextShort]_vars
                /\ \A f \in Fetchers : WF_vars(ThreadStepShort(f))

TypeOK ==
    /\ now \in Nat
    /\ session \in [Fetchers -> Sessions]
    /\ last_fetched \in [Sessions -> Int]
    /\ lockHolder \in [Sessions -> Fetchers \cup {NoThread}]
    /\ poisoned \in [Sessions -> BOOLEAN]
    /\ \A f \in Fetchers :
         pc[f] \in {"idle", "lock", "delay", "sleep", "fetch", "inflight",
                    "stamp", "dead", "drained"}

\* --------------------------------------------------------- vocabulary
\* the thread of f is inside try_get
InTryGet(f) == pc[f] \in {"lock", "delay", "sleep", "fetch", "inflight", "stamp"}
\* the thread of f is in the keyless growth phase, between lock() and the
\* drop of the guard
InGrowth(f) == pc[f] \in {"delay", "sleep", "fetch", "inflight", "stamp"}
\* this step is a step of the thread of f
Steps(f) == pc'[f] # pc[f] \/ calls'[f] # calls[f]
\* this step enters try_get on f
Enters(f) == calls'[f] = calls[f] + 1
\* this step sends a request of a keyless fetcher f
KeylessInvokes(f) == ~premium[f] /\ pc[f] = "fetch" /\ pc'[f] = "inflight"
\* the last try_get on f has returned
Returned(f) == pc[f] = "idle" /\ calls[f] > 0
Panicked == {f \in Fetchers : pc[f] = "dead"}

\* ------------------------------------------------------------------ C1
\* C1: any two consecutive requests sent by keyless fetchers of the session,
\* failed ones included, are at least DELAY apart.
C1_MinInterval ==
    [][\A f \in Fetchers :
         (KeylessInvokes(f) /\ lastCallAt[session[f]] # NoCall)
            => lastCallAt'[session[f]] - lastCallAt[session[f]] >= DELAY]_vars

\* ------------------------------------------------------------------ C2
\* C2: a try_get that has returned gave either Ok with exactly `amount`
\* records or the error of a remote call it made; never another number.
C2_AllOrError ==
    \A f \in Fetchers :
       Returned(f) =>
          \/ result[f].kind = "ok" /\ Len(result[f].recs) = amount[f]
          \/ result[f] = Err /\ ncalls[f] >= 1

C2_Witness ==
    \E f, g \in Fetchers :
       /\ Returned(f) /\ result[f].kind = "ok"
       /\ amount[f] > limit[f] /\ ncalls[f] >= 2
       /\ Returned(g) /\ result[g] = Err

\* ------------------------------------------------------------------ C3
\* C3: a try_get entered with amount <= buffer length returns in that step:
\* no remote call, the gate (holder, poison flag, stored instant) and the
\* clock untouched, exactly `amount` records out, the buffer shorter by
\* `amount` -- for both tiers, whoever holds the gate.
C3_FastPath ==
    [][\A f \in Fetchers :
         (Enters(f) /\ amount'[f] <= Len(proxies[f])) =>
            /\ pc'[f] = "idle"
            /\ UNCHANGED <<last_fetched, lockHolder, poisoned, now, lastCallAt,
                           fetched, wake>>
            /\ ncalls'[f] = 0
            /\ result'[f].kind = "ok"
            /\ Len(result'[f].recs) = amount'[f]
            /\ Len(proxies'[f]) = Len(proxies[f]) - amount'[f]]_vars

C3_Witness ==
    \E f, g \in Fetchers :
       /\ Returned(f) /\ result[f].kind = "ok"
       /\ calls[f] >= 2 /\ amount[f] >= 1 /\ ncalls[f] = 0
       /\ lockHolder[session[g]] = g /\ g # f /\ pc[g] = "sleep"

\* ------------------------------------------------------------------ C4
\* C4: what a fetcher handed out through its Ok results plus what is still
\* buffered -- or, after drain(), plus what drain() returned -- is what it
\* received from the remote boundary; and drain() touches neither the gate,
\* nor the clock, nor the remote boundary.
Conserved(f) ==
    IF pc[f] = "drained"
      THEN returned[f] + Len(drained[f]) = fetched[f]
      ELSE returned[f] + Len(proxies[f]) = fetched[f]

DrainFrame(f) ==
    (pc[f] # "drained" /\ pc'[f] = "drained") =>
        UNCHANGED <<last_fetched, lockHolder, poisoned, now, lastCallAt,
                    fetched, ncalls, returned>>

C4_Conservation ==
    /\ [](\A f \in Fetchers : Conserved(f))
    /\ [][\A f \in Fetchers : DrainFrame(f)]_vars

C4_Witness ==
    \E f \in Fetchers :
       /\ pc[f] = "drained" /\ calls[f] >= 2
       /\ returned[f] >= 1 /\ Len(drained[f]) >= 1
       /\ fetched[f] > limit[f]

\* ------------------------------------------------------------------ C5
\* C5: no step of a premium fetcher takes, waits for or releases the guard,
\* writes the stored instant or the poison flag, reads the clock or sleeps,
\* whatever the other fetchers are doing.
C5_PremiumIgnoresGate ==
    /\ [](\A f \in Fetchers :
            premium[f] => /\ pc[f] \in {"idle", "fetch", "inflight", "drained"}
                          /\ \A s \in Sessions : lockHolder[s] # f)
    /\ [][\A f \in Fetchers :
            (premium[f] /\ Steps(f)) =>
                UNCHANGED <<last_fetched, lockHolder, poisoned, now, wake,
                            lastCallAt, recoveries>>]_vars

C5_Witness ==
    \E f, g \in Fetchers :
       /\ premium[f] /\ ~premium[g]
       /\ pc[g] = "sleep" /\ lockHolder[session[g]] = g /\ now < wake[g]
       /\ Returned(f) /\ result[f].kind = "ok" /\ ncalls[f] >= 2

\* ------------------------------------------------------------------ C6
\* C6: lock() on a poisoned mutex hands out the guard -- the step leaves the
\* caller in its growth loop with the stored instant reset to the instant it
\* read, not with an error -- and a keyless try_get that reaches lock() on a
\* poisoned mutex returns (or its own thread panics in the remote call).
RecoversPoison(f) ==
    (poisoned[session[f]] /\ pc[f] = "lock" /\ pc'[f] # "lock") =>
        /\ pc'[f] = "delay"
        /\ lockHolder'[session[f]] = f
        /\ last_fetched'[session[f]] = now'
        /\ result'[f] = Pending

C6_PoisonNoDeadlock ==
    /\ [][\A f \in Fetchers : RecoversPoison(f)]_vars
    /\ \A f \in Fetchers :
          (poisoned[session[f]] /\ pc[f] = "lock") ~> (pc[f] \in {"idle", "dead"})

C6_Witness ==
    \E f \in Fetchers :
       /\ Cardinality(Panicked) = 1 /\ poisoned[session[f]] /\ recoveries >= 1
       /\ ~premium[f] /\ Returned(f) /\ result[f].kind = "ok"
       /\ ncalls[f] >= 2

\* ------------------------------------------------------------------ C7
\* C7: one poisoning costs one reset of the timer: the poisoned branch of
\* lock() never runs more often than threads have panicked with the guard.
C7_OneResetPerPoisoning ==
    recoveries <= Cardinality(Panicked)

\* ------------------------------------------------------------------ C8
\* C8: a try_get that returned the error of a remote call made no call after
\* the failing one, and left in the buffer what was there when it was
\* entered followed by the batches of its earlier iterations, in order.
C8_ErrorKeepsProgress ==
    \A f \in Fetchers :
       (Returned(f) /\ result[f] = Err) =>
          /\ proxies[f] =
               preBuf[f] \o Batch(fetched0[f], fetched[f] - fetched0[f])
          /\ (ncalls[f] - 1) * limit[f] = fetched[f] - fetched0[f]

C8_Witness ==
    \E f, g \in Fetchers :
       /\ Returned(f) /\ result[f] = Err
       /\ fetched[f] > fetched0[f] /\ ncalls[f] >= 2
       /\ Returned(g) /\ result[g] = Err /\ Len(preBuf[g]) >= 1

\* ------------------------------------------------------------------ C9
\* C9: the guard is held only inside the keyless growth phase; once try_get
\* has returned, Ok or not, its fetcher does not hold it.
C9_GuardReleased ==
    \A f \in Fetchers :
       \A s \in Sessions : lockHolder[s] = f => (InGrowth(f) /\ ~premium[f])

C9_Witness ==
    \E f, g \in Fetchers :
       /\ ~premium[f] /\ Returned(f) /\ result[f] = Err
       /\ g # f /\ lockHolder[session[g]] = g /\ calls[g] >= 1
       /\ lastCallAt[session[f]] # NoCall

C11_ZeroAmount ==
    [][\A f \in Fetchers :
         (Enters(f) /\ amount'[f] = 0) =>
            /\ pc'[f] = "idle"
            /\ result'[f] = Ok(<<>>)
            /\ proxies'[f] = proxies[f]
            /\ ncalls'[f] = 0
            /\ UNCHANGED <<last_fetched, lockHolder, poisoned, now, lastCallAt,
                           fetched, returned, wake>>]_vars

C11_Witness ==
    \E f, g \in Fetchers :
       /\ premium[f] /\ Returned(f) /\ amount[f] = 0 /\ result[f] = Ok(<<>>)
       /\ proxies[f] = <<>>
       /\ ~premium[g] /\ Returned(g) /\ amount[g] = 0 /\ result[g] = Ok(<<>>)
       /\ Len(proxies[g]) >= 1 /\ calls[g] >= 2

\* ----------------------------------------------------------------- C12
\* C12: the fetchers of one Session have buffers of their own.  A step of
\* one fetcher (try_get, its remote calls, drain) leaves the buffer and the
\* fetched, handed-out and drained records of every other fetcher as they
\* were; a fetcher's count of received records grows only when its own
\* remote call returns, by its own opts.limit; and what it holds, handed out
\* and drained adds up to what it received itself.
OthersUntouched(f) ==
    Steps(f) =>
       \A g \in Fetchers \ {f} :
          /\ proxies'[g] = proxies[g]
          /\ fetched'[g] = fetched[g]
          /\ returned'[g] = returned[g]
          /\ drained'[g] = drained[g]

OwnBatches(f) ==
    /\ fetched'[f] - fetched[f] \in {0, limit[f]}
    /\ fetched'[f] # fetched[f] => (pc[f] = "inflight" /\ Steps(f))

OwnRecords(f) ==
    /\ returned[f] + Len(proxies[f]) + Len(drained[f]) = fetched[f]
    /\ \A i \in 1..Len(proxies[f]) : proxies[f][i] \in 1..fetched[f]
    /\ \A i \in 1..Len(drained[f]) : drained[f][i] \in 1..fetched[f]

C12_IndependentBuffers ==
    /\ [][\A f \in Fetchers : OthersUntouched(f) /\ OwnBatches(f)]_vars
    /\ [](\A f \in Fetchers : OwnRecords(f))

C12_Witness ==
    \E f, g \in Fetchers :
       /\ f # g /\ session[f] = session[g] /\ ~premium[f] /\ ~premium[g]
       /\ pc[f] = "drained" /\ Len(drained[f]) >= 1 /\ returned[f] >= 1
       /\ Returned(g) /\ result[g].kind = "ok" /\ Len(proxies[g]) >= 1
       /\ fetched[f] = limit[f] /\ fetched[g] = limit[g]

\* ----------------------------------------------------------------- C13
\* C13: every Session is a timing domain of its own.  A step of a fetcher
\* leaves the gate of every other Session (holder, poison flag, stored
\* instant) and the position and wake-up time of that Session's fetchers
\* as they were; a gate is only ever held by a fetcher of its own Session,
\* so a keyless fetcher at lock() can take its gate whenever no fetcher of
\* its own Session holds it, whatever the other Session's fetchers do.
OtherSessionsUntouched(f) ==
    Steps(f) =>
       /\ \A s \in Sessions \ {session[f]} :
             /\ last_fetched'[s] = last_fetched[s]
             /\ lockHolder'[s] = lockHolder[s]
             /\ poisoned'[s] = poisoned[s]
             /\ lastCallAt'[s] = lastCallAt[s]
       /\ \A g \in Fetchers :
             session[g] # session[f] => (pc'[g] = pc[g] /\ wake'[g] = wake[g])

HeldByOwnFetcher ==
    \A s \in Sessions :
       lockHolder[s] # NoThread => session[lockHolder[s]] = s

NotBlockedByOthers(g) ==
    (pc[g] = "lock" /\ \A h \in Fetchers : session[h] = session[g] => ~InGrowth(h))
       => ENABLED Lock(g)

C13_SessionsIndependent ==
    /\ [][\A f \in Fetchers : OtherSessionsUntouched(f)]_vars
    /\ [](HeldByOwnFetcher /\ \A g \in Fetchers : NotBlockedByOthers(g))

C13_Witness ==
    \E f, g \in Fetchers :
       /\ session[f] # session[g] /\ ~premium[f] /\ ~premium[g]
       /\ lockHolder[session[f]] = f /\ pc[f] = "sleep" /\ ncalls[f] >= 1
       /\ lockHolder[session[g]] = g /\ pc[g] = "inflight"
       /\ lastCallAt[session[f]] # NoCall
       /\ lastCallAt[session[g]] - lastCallAt[session[f]] < DELAY
       /\ lastCallAt[session[g]] >= lastCallAt[session[f]]

\* ----------------------------------------------------------------- C14
\* C14: with remote calls that return opts.limit records each, a try_get
\* entered with b < amount records in the buffer that returns Ok has sent
\* exactly ceil((amount - b) / limit) requests, and no try_get ever sends
\* more than that; a premium fetcher is never at the lock, in the delay
\* check or asleep between its requests.
Ceil(a, b) == (a + b - 1) \div b

CallsNeeded(f) ==
    IF Len(preBuf[f]) >= amount[f]
      THEN 0
      ELSE Ceil(amount[f] - Len(preBuf[f]), limit[f])

C14_ExactCalls ==
    \A f \in Fetchers :
       /\ ncalls[f] <= CallsNeeded(f)
       /\ (Returned(f) /\ result[f].kind = "ok") => ncalls[f] = CallsNeeded(f)
       /\ premium[f] => pc[f] \notin {"lock", "delay", "sleep", "stamp"}

C14_Witness ==
    \E f, g \in Fetchers :
       /\ premium[f] /\ Returned(f) /\ result[f].kind = "ok"
       /\ Len(preBuf[f]) >= 1 /\ Len(preBuf[f]) < amount[f] /\ ncalls[f] = 1
       /\ ~premium[g] /\ Returned(g) /\ result[g].kind = "ok"
       /\ preBuf[g] = <<>> /\ amount[g] > limit[g] /\ ncalls[g] = 2

\* ----------------------------------------------------------------- C15
\* C15: a keyless try_get on the slow path takes the guard once, in the
\* step from lock() to its first delay check, and holds it in every state
\* of its growth phase -- delay check, sleep, request, append, timestamp
\* update -- until the loop ends; so no two keyless fetchers of a Session
\* are in their growth phase at once.
HoldsThroughGrowth(f) ==
    (InGrowth(f) /\ ~premium[f]) => lockHolder[session[f]] = f

OneInGrowth ==
    \A f, g \in Fetchers :
       (f # g /\ session[f] = session[g] /\ ~premium[f] /\ ~premium[g])
          => ~(InGrowth(f) /\ InGrowth(g))

AcquiresOnce(f) ==
    /\ (lockHolder[session[f]] # f /\ lockHolder'[session[f]] = f)
          => (pc[f] = "lock" /\ pc'[f] = "delay" /\ ncalls[f] = 0)
    /\ (lockHolder[session[f]] = f /\ lockHolder'[session[f]] # f)
          => pc'[f] \in {"idle", "dead"}

C15_LockScope ==
    /\ [](OneInGrowth /\ \A f \in Fetchers : HoldsThroughGrowth(f))
    /\ [][\A f \in Fetchers : AcquiresOnce(f)]_vars

C15_Witness ==
    \E f, g \in Fetchers :
       /\ f # g /\ session[f] = session[g] /\ ~premium[f] /\ ~premium[g]
       /\ pc[f] = "sleep" /\ ncalls[f] >= 1 /\ lockHolder[session[f]] = f
       /\ now < wake[f]
       /\ pc[g] = "lock"

\* ----------------------------------------------------------------- C16
\* C16: whenever the gate of a Session is not held, its stored instant is
\* not before the instant at which the latest request of a keyless fetcher
\* of that Session was sent: every such request is followed by a timestamp
\* update before the guard is dropped.
C16_StampCoversLastCall ==
    \A s \in Sessions :
       (lockHolder[s] = NoThread /\ lastCallAt[s] # NoCall)
          => last_fetched[s] >= lastCallAt[s]

\* ----------------------------------------------------------------- C17
\* C17: delay accounting when the fetchers of a Session are used one after
\* the other.  At the delay check before a request: before the first
\* request of a fresh Session there is no suspension; the suspension is
\* exactly what is left of DELAY since the stored instant; and when no time
\* has passed since the previous request of the Session was sent
\* (back-to-back, instantaneous remote calls) it is a full DELAY, so that k
\* requests cost k - 1 full suspensions.
Uncontended(f) == \A g \in Fetchers \ {f} : ~InTryGet(g)

DelayChecked(f) == pc[f] = "delay" /\ pc'[f] # "delay"

Suspension(f) == IF pc'[f] = "sleep" THEN wake'[f] - now' ELSE 0

FirstCallNoSuspension(f) ==
    lastCallAt[session[f]] = NoCall => Suspension(f) = 0

ExactRemainder(f) ==
    Suspension(f) = Max(0, DELAY - (now' - last_fetched[session[f]]))

BackToBackFullInterval(f) ==
    (lastCallAt[session[f]] # NoCall /\ now' = lastCallAt[session[f]])
       => Suspension(f) = DELAY

C17_DelayAccounting ==
    [][\A f \in Fetchers :
         (DelayChecked(f) /\ Uncontended(f)) =>
            /\ FirstCallNoSuspension(f)
            /\ ExactRemainder(f)
            /\ BackToBackFullInterval(f)]_vars

\* ----------------------------------------------------------------- C18
\* C18: buffer discipline.  In every step the buffer of a fetcher either
\* stays as it is or gets the batch its own remote call returned appended
\* at the tail; or a try_get returns Ok in this step, and then the buffer
\* (with the batch of this step, if any) is the new buffer followed by the
\* `amount` records handed out, in that order; or drain() hands out the
\* whole buffer.  The records of a buffer are always in the order in which
\* they were received.
Appended(f) == proxies[f] \o Batch(fetched[f], fetched'[f] - fetched[f])

ReturnsOk(f) ==
    /\ Steps(f) /\ pc'[f] = "idle" /\ result'[f].kind = "ok"
    /\ returned'[f] = returned[f] + amount'[f]

BufferStep(f) ==
    \/ /\ proxies'[f] = Appended(f)
       /\ returned'[f] = returned[f]
       /\ fetched'[f] # fetched[f] => pc[f] = "inflight"
    \/ /\ ReturnsOk(f)
       /\ Len(result'[f].recs) = amount'[f]
       /\ proxies'[f] \o result'[f].recs = Appended(f)
    \/ /\ pc[f] = "idle" /\ pc'[f] = "drained"
       /\ drained'[f] = proxies[f]
       /\ fetched'[f] = fetched[f] /\ returned'[f] = returned[f]

InOrder(v) == \A i, j \in 1..Len(v) : i < j => v[i] < v[j]

C19_GrowthTerminates ==
    \A f \in Fetchers : (pc[f] = "fetch") ~> (pc[f] = "idle")

\* ----------------------------------------------------------------- C20
\* C20: the stored instant of a gate never goes back.  Every step that
\* writes it -- the timestamp update after a request, the reset of a
\* poisoned mutex -- writes the instant just read from the monotonic clock;
\* failed calls and panics do not write it.  So it never decreases, and it
\* is never later than the current time.
WritesNow(s) ==
    last_fetched'[s] # last_fetched[s] => last_fetched'[s] = now'

NeverBack(s) == last_fetched'[s] >= last_fetched[s]

C20_StampMonotone ==
    /\ [][\A s \in Sessions : WritesNow(s) /\ NeverBack(s)]_vars
    /\ [](\A s \in Sessions : last_fetched[s] <= now)

C20_Witness ==
    \E f, g \in Fetchers :
       /\ pc[f] = "dead" /\ session[f] = session[g]
       /\ poisoned[session[g]] /\ recoveries >= 1
       /\ Returned(g) /\ result[g] = Err /\ ncalls[g] >= 2
       /\ last_fetched[session[g]] >= DELAY
       /\ last_fetched[session[g]] >= lastCallAt[session[g]] - DELAY

====
